---- MODULE Spec2Model ----
\* Tool catalog cache, alias registry and tool facade of ToolExecutor
\* (mcps/mcp-executor/src/mcp_executor/runtime.py); the module-level twin in
\* mcps/tools-executor/src/tools_executor/cli.py has the same logic.
\*
\* Strings are sequences of one-character strings, so that sanitisation and
\* suffixing are computed character by character as re.sub/strip/f-strings do.
EXTENDS Integers, Sequences, FiniteSets, TLC

\* ---------------------------------------------------------------- bounds
\* Number of facade calls (list_tools / render_tool_index / call_tool) in a run.
NCallers == 2
\* Number of getCatalog calls in a run of the cache alone (SpecCache).
NGets == 3
\* Number of _tool_name_to_identifier calls followed in one epoch (SpecAlias).
MaxRegs == 4
\* Depth to which array schemas are nested through "items" (SpecSchema).
MaxDepth == 1

\* ---------------------------------------------------------------- state
VARIABLES
    list_task,      \* _list_task: 0 for None, else the id of the asyncio task
    tasks,          \* every fetch task created: its state and result
    tool_aliases,   \* _tool_aliases
    alias_src,      \* the task whose tool list the table was last built from
    calls,          \* the facade calls: where each coroutine stands
    epoch_log,      \* the registrations made since the last reset
    tool_in,        \* the tool descriptor handed to the schema translator
    out             \* what the translator's function last applied gave

\* The translator's variables: no operation of the cache or the registry
\* reads or writes them.
translator == <<tool_in, out>>

vars == <<list_task, tasks, tool_aliases, alias_src, calls, epoch_log, tool_in, out>>

\* No descriptor under translation, nothing translated.
NoTool == [name |-> <<>>]

NoOutput == [fn |-> "none"]

\* ---------------------------------------------------------------- strings
Digits == {"0", "1", "2", "3", "4", "5", "6", "7", "8", "9"}

Letters ==
    {"a", "b", "c", "d", "e", "f", "g", "h", "i", "j", "k", "l", "m",
     "n", "o", "p", "q", "r", "s", "t", "u", "v", "w", "x", "y", "z",
     "A", "B", "C", "D", "E", "F", "G", "H", "I", "J", "K", "L", "M",
     "N", "O", "P", "Q", "R", "S", "T", "U", "V", "W", "X", "Y", "Z"}

\* The complement of the regular expression class [^0-9a-zA-Z_].
IdentChars == Digits \cup Letters \cup {"_"}

IsIdentChar(ch) == ch \in IdentChars

\* re.sub(r"[^0-9a-zA-Z_]", "_", name)
ReSub(name) == [i \in 1..Len(name) |-> IF IsIdentChar(name[i]) THEN name[i] ELSE "_"]

RECURSIVE LStrip(_)
LStrip(s) == IF s # <<>> /\ Head(s) = "_" THEN LStrip(Tail(s)) ELSE s

RECURSIVE RStrip(_)
RStrip(s) ==
    IF s # <<>> /\ s[Len(s)] = "_" THEN RStrip(SubSeq(s, 1, Len(s) - 1)) ELSE s

\* str.strip("_")
Strip(s) == RStrip(LStrip(s))

DigitChar(d) ==
    CASE d = 0 -> "0" [] d = 1 -> "1" [] d = 2 -> "2" [] d = 3 -> "3"
      [] d = 4 -> "4" [] d = 5 -> "5" [] d = 6 -> "6" [] d = 7 -> "7"
      [] d = 8 -> "8" [] d = 9 -> "9"

\* The decimal rendering of a natural number, as an f-string renders it.
RECURSIVE Decimal(_)
Decimal(k) == IF k < 10 THEN <<DigitChar(k)>> ELSE Decimal(k \div 10) \o <<DigitChar(k % 10)>>

SanitizeNoDigitPrefix(name) ==
    LET stripped == Strip(ReSub(name))
    IN  IF stripped = <<>> THEN <<"t", "o", "o", "l">> ELSE stripped

\* The identifier computed by _tool_name_to_identifier before registration.
Sanitize(name) ==
    LET stripped == Strip(ReSub(name))
        nonempty == IF stripped = <<>> THEN <<"t", "o", "o", "l">> ELSE stripped
    IN  IF nonempty[1] \in Digits
        THEN <<"t", "o", "o", "l", "_">> \o nonempty
        ELSE nonempty

\* ---------------------------------------------------------------- alias table
\* The dict _tool_aliases: a function from identifiers to raw names.
EmptyAliases == [x \in {} |-> <<>>]

\* Python's None, the value dict.get gives for an absent key: a value that is
\* no string (every string is a sequence of one-character strings).
None == <<"None">>

\* dict.get(key)
DictGet(table, key) == IF key \in DOMAIN table THEN table[key] ELSE None

\* table[key] = value
DictSet(table, key, value) ==
    [x \in DOMAIN table \cup {key} |-> IF x = key THEN value ELSE table[x]]

SuffixedNoSeparator(base, suffix) == base \o Decimal(suffix)

\* f"{base}_{suffix}"
Suffixed(base, suffix) == base \o <<"_">> \o Decimal(suffix)

ProbeAcceptsAbsentOnly(existing, raw_name) == existing = None

\* The condition under which the probe loop binds the candidate.
ProbeAccepts(existing, raw_name) == existing = None \/ existing = raw_name

\* The while-True loop of _register_tool_alias, from a given suffix on.
RECURSIVE ProbeSuffix(_, _, _, _)
ProbeSuffix(table, raw_name, base, suffix) ==
    LET candidate == Suffixed(base, suffix)
        existing == DictGet(table, candidate)
    IN  IF ProbeAccepts(existing, raw_name)
        THEN [id |-> candidate, table |-> DictSet(table, candidate, raw_name)]
        ELSE ProbeSuffix(table, raw_name, base, suffix + 1)

RegisterOverwrite(table, raw_name, identifier) ==
    [id |-> identifier, table |-> DictSet(table, identifier, raw_name)]

RegisterFromOne(table, raw_name, identifier) ==
    IF DictGet(table, identifier) = raw_name
    THEN [id |-> identifier, table |-> table]
    ELSE IF identifier \notin DOMAIN table
    THEN [id |-> identifier, table |-> DictSet(table, identifier, raw_name)]
    ELSE ProbeSuffix(table, raw_name, identifier, 1)

\* _register_tool_alias: the identifier returned and the table afterwards.
RegisterToolAlias(table, raw_name, identifier) ==
    IF DictGet(table, identifier) = raw_name
    THEN [id |-> identifier, table |-> table]
    ELSE IF identifier \notin DOMAIN table
    THEN [id |-> identifier, table |-> DictSet(table, identifier, raw_name)]
    ELSE ProbeSuffix(table, raw_name, identifier, 2)

\* _tool_name_to_identifier
ToolNameToIdentifier(table, name) == RegisterToolAlias(table, name, Sanitize(name))

\* The loop "for tool in tools: self._tool_name_to_identifier(tool.name)" run on
\* a table: the table afterwards and the identifiers returned, in order.
RECURSIVE RegisterAll(_, _)
RegisterAll(table, names) ==
    IF names = <<>>
    THEN [table |-> table, ids |-> <<>>]
    ELSE LET first == ToolNameToIdentifier(table, Head(names))
             rest == RegisterAll(first.table, Tail(names))
         IN  [table |-> rest.table, ids |-> <<first.id>> \o rest.ids]

BuildAliasesNoReset(names) == RegisterAll(tool_aliases, names)

\* _reset_tool_aliases followed by the registration loop.
BuildAliases(names) == RegisterAll(EmptyAliases, names)

ResolveIdentity(table, name) == name

\* self._tool_aliases.get(name, name) of call_tool
Resolve(table, name) == IF name \in DOMAIN table THEN table[name] ELSE name

\* ---------------------------------------------------------------- inputs
nSearch == <<"s", "e", "a", "r", "c", "h">>
nSearchBang == nSearch \o <<"!">>
nSearch2 == nSearch \o <<"_", "2">>
nOther == <<"z">>

\* A tool as the provider lists it (mcp.types.Tool); only its name is used here.
Tool(n) == [name |-> n]

ToolNames(tools) == [i \in 1..Len(tools) |-> tools[i].name]

\* The tool lists client.list_tools() may return.
Catalogs ==
    { <<>>,
      <<Tool(nSearch), Tool(nSearchBang)>>,
      <<Tool(nSearchBang), Tool(nSearch)>> }

\* The names a caller may pass to call_tool.
CallNames == {nSearch, nSearch2, nOther}

\* ---------------------------------------------------------------- calls and tasks
\* Calls are numbered in the order they are made; every call creates at most
\* one fetch task, so there are no more tasks than calls.
Callers == DOMAIN calls

TaskIds == DOMAIN tasks

NoTask == [st |-> "none", tools |-> <<>>, by |-> 0]

\* pc: where the coroutine stands; entry, entrySt, early: what the cache held
\* and whether no call had returned yet when the call was made; awaited: the
\* task object the call evaluated in "await self._list_task"; from, tools: the
\* task whose outcome it was handed and the tool list it got.
IdleCall ==
    [pc |-> "idle", op |-> "none", refresh |-> FALSE, name |-> <<>>,
     entry |-> 0, entrySt |-> "none", early |-> FALSE, awaited |-> 0,
     from |-> 0, tools |-> <<>>, resolved |-> None, result |-> "none"]

InitWith(n) ==
    /\ list_task = 0
    /\ tasks = [f \in 1..n |-> NoTask]
    /\ tool_aliases = EmptyAliases
    /\ alias_src = 0
    /\ calls = [c \in 1..n |-> IdleCall]
    /\ epoch_log = <<>>
    /\ tool_in = NoTool
    /\ out = NoOutput

\* ToolExecutor.__init__
Init == InitWith(NCallers)

\* ---------------------------------------------------------------- catalog cache
NumTasks == Cardinality({f \in TaskIds : tasks[f].st # "none"})

ShouldFetchAlways(refresh, task) == TRUE

\* "if refresh or self._list_task is None" of _get_tools
ShouldFetch(refresh, task) == refresh \/ task = 0

\* The cache state a caller observes: Empty, Fetching, Ready, or a finished
\* failed task that no awaiter has dropped yet.
CacheState == IF list_task = 0 THEN "empty" ELSE tasks[list_task].st

AwaitedTaskReread(c) == IF list_task # 0 THEN list_task ELSE calls[c].awaited

\* The task an awaiting call resumes from: the task object it evaluated in
\* "await self._list_task" when it suspended.
AwaitedTask(c) == calls[c].awaited

AfterFailureKeep(current, failed) == current

\* "self._list_task = None" of the except clause of _get_tools
AfterFailure(current, failed) == 0

\* The registrations of one pass, as (raw name, identifier returned) records.
PassLog(names, ids) == [i \in 1..Len(names) |-> [raw |-> names[i], id |-> ids[i]]]

\* What a call does with the outcome of "await self._list_task" on task f,
\* given the call record so far: the rest of _get_tools and of the operation
\* that called it, up to its next suspension.  Gives the new call record, the
\* new alias table with its source and log, and the new _list_task.
Continue(rec, f, task_now) ==
    IF tasks[f].st = "failed"
    THEN [call |-> [rec EXCEPT !.pc = "done", !.from = f, !.result = "fetch_error"],
          aliases |-> tool_aliases, src |-> alias_src, log |-> epoch_log,
          task |-> AfterFailure(task_now, f)]
    ELSE IF tasks[f].st = "cancelled"
    THEN \* CancelledError is not an Exception: the except clause is passed by
         [call |-> [rec EXCEPT !.pc = "done", !.from = f, !.result = "fetch_cancelled"],
          aliases |-> tool_aliases, src |-> alias_src, log |-> epoch_log,
          task |-> task_now]
    ELSE LET names == ToolNames(tasks[f].tools)
             built == BuildAliases(names)
             got == [rec EXCEPT !.from = f, !.tools = tasks[f].tools]
         IN  CASE rec.op = "list_tools" ->
                    [call |-> [got EXCEPT !.pc = "done", !.result = "tools"],
                     aliases |-> tool_aliases, src |-> alias_src,
                     log |-> epoch_log, task |-> task_now]
               [] rec.op = "render_tool_index" ->
                    [call |-> [got EXCEPT !.pc = "done", !.result = "index"],
                     aliases |-> built.table, src |-> f,
                     log |-> PassLog(names, built.ids), task |-> task_now]
               [] rec.op = "call_tool" ->
                    [call |-> [got EXCEPT !.pc = "invoke",
                                          !.resolved = Resolve(built.table, rec.name)],
                     aliases |-> built.table, src |-> f,
                     log |-> PassLog(names, built.ids), task |-> task_now]

\* The record of a call as it starts: what it was asked, and what the cache
\* held at that moment.
NewCall(op, refresh, name) ==
    [IdleCall EXCEPT !.op = op, !.refresh = refresh, !.name = name,
                     !.entry = list_task, !.entrySt = CacheState,
                     !.early = \A d \in Callers : calls[d].pc # "done"]

\* Calls are numbered in the order they are made.
MayStart(c) ==
    /\ calls[c].pc = "idle"
    /\ IF c = 1 THEN TRUE ELSE calls[c - 1].pc # "idle"

\* _get_tools(refresh) called by call c, up to its first suspension: the task is
\* created if need be; a task that is already done is not waited for, so the
\* call goes on at once.
GetTools(c, rec, refresh) ==
    LET create == ShouldFetch(refresh, list_task)
        newId == NumTasks + 1
        f == IF create THEN newId ELSE list_task
    IN  IF create \/ tasks[f].st = "running"
        THEN /\ calls' = [calls EXCEPT ![c] = [rec EXCEPT !.pc = "await", !.awaited = f]]
             /\ list_task' = f
             /\ tasks' = IF create
                         THEN [tasks EXCEPT ![newId] =
                                 [st |-> "running", tools |-> <<>>, by |-> c]]
                         ELSE tasks
             /\ UNCHANGED <<tool_aliases, alias_src, epoch_log>>
        ELSE LET k == Continue([rec EXCEPT !.awaited = f], f, f)
             IN  /\ calls' = [calls EXCEPT ![c] = k.call]
                 /\ list_task' = k.task
                 /\ tool_aliases' = k.aliases
                 /\ alias_src' = k.src
                 /\ epoch_log' = k.log
                 /\ UNCHANGED tasks

\* ToolExecutor.list_tools(refresh)
ListTools(c, refresh) ==
    /\ MayStart(c)
    /\ UNCHANGED translator
    /\ GetTools(c, NewCall("list_tools", refresh, <<>>), refresh)

\* ToolExecutor.render_tool_index(refresh)
RenderToolIndex(c, refresh) ==
    /\ MayStart(c)
    /\ UNCHANGED translator
    /\ GetTools(c, NewCall("render_tool_index", refresh, <<>>), refresh)

\* "if self._tool_aliases: return" of _ensure_tool_aliases
AliasesBuilt(table) == table # EmptyAliases

EnsureRefreshForced == TRUE

\* The refresh argument of "await self._get_tools()" in _ensure_tool_aliases:
\* the default of the parameter.
EnsureRefresh == FALSE

\* ToolExecutor.call_tool(name), up to its first suspension
CallTool(c, name) ==
    /\ MayStart(c)
    /\ UNCHANGED translator
    /\ IF AliasesBuilt(tool_aliases)
       THEN /\ calls' = [calls EXCEPT ![c] =
                   [NewCall("call_tool", FALSE, name) EXCEPT
                       !.pc = "invoke", !.resolved = Resolve(tool_aliases, name)]]
            /\ UNCHANGED <<list_task, tasks, tool_aliases, alias_src, epoch_log>>
       ELSE GetTools(c, NewCall("call_tool", EnsureRefresh, name), EnsureRefresh)

WokenIfCurrent(c) ==
    /\ calls[c].pc = "await"
    /\ calls[c].awaited = list_task
    /\ tasks[calls[c].awaited].st \in {"ok", "failed", "cancelled"}

\* The event loop has a wake-up for call c: the call is suspended in
\* "await self._list_task" and the task object it awaits is done, whether or
\* not the cache still holds that task.
Woken(c) ==
    /\ calls[c].pc = "await"
    /\ tasks[AwaitedTask(c)].st \in {"ok", "failed", "cancelled"}

\* A call suspended in "await self._list_task" is woken once that task is done.
Resume(c) ==
    /\ Woken(c)
    /\ UNCHANGED translator
    /\ LET k == Continue(calls[c], AwaitedTask(c), list_task)
       IN  /\ calls' = [calls EXCEPT ![c] = k.call]
           /\ list_task' = k.task
           /\ tool_aliases' = k.aliases
           /\ alias_src' = k.src
           /\ epoch_log' = k.log
    /\ UNCHANGED tasks

FetchSucceedsResetting(f, tools) ==
    /\ tasks[f].st = "running"
    /\ tasks' = [tasks EXCEPT ![f].st = "ok", ![f].tools = tools]
    /\ tool_aliases' = EmptyAliases
    /\ UNCHANGED <<list_task, alias_src, calls, epoch_log>>
    /\ UNCHANGED translator

\* _fetch_tools returns the provider's tool list.
FetchSucceeds(f, tools) ==
    /\ tasks[f].st = "running"
    /\ UNCHANGED translator
    /\ tasks' = [tasks EXCEPT ![f].st = "ok", ![f].tools = tools]
    /\ UNCHANGED <<list_task, tool_aliases, alias_src, calls, epoch_log>>

\* _fetch_tools raises (no client, connection or protocol failure).
FetchFails(f) ==
    /\ tasks[f].st = "running"
    /\ UNCHANGED translator
    /\ tasks' = [tasks EXCEPT ![f].st = "failed"]
    /\ UNCHANGED <<list_task, tool_aliases, alias_src, calls, epoch_log>>

InvokeReturnsResetting(c, outcome) ==
    /\ calls[c].pc = "invoke"
    /\ UNCHANGED translator
    /\ calls' = [calls EXCEPT ![c].pc = "done", ![c].result = outcome]
    /\ list_task' = IF outcome = "call_error" THEN 0 ELSE list_task
    /\ UNCHANGED <<tasks, tool_aliases, alias_src, epoch_log>>

\* client.call_tool returns or raises (a timeout is one of the failures it
\* raises); call_tool hands either on unchanged and has no handler around it.
InvokeReturns(c, outcome) ==
    /\ calls[c].pc = "invoke"
    /\ UNCHANGED translator
    /\ calls' = [calls EXCEPT ![c].pc = "done", ![c].result = outcome]
    /\ UNCHANGED <<list_task, tasks, tool_aliases, alias_src, epoch_log>>

\* The facade: every public operation of ToolExecutor.
Next ==
    \/ \E c \in Callers, refresh \in BOOLEAN : ListTools(c, refresh)
    \/ \E c \in Callers, refresh \in BOOLEAN : RenderToolIndex(c, refresh)
    \/ \E c \in Callers, name \in CallNames : CallTool(c, name)
    \/ \E c \in Callers : Resume(c)
    \/ \E f \in TaskIds, tools \in Catalogs : FetchSucceeds(f, tools)
    \/ \E f \in TaskIds : FetchFails(f)
    \/ \E c \in Callers, outcome \in {"value", "call_error"} : InvokeReturns(c, outcome)

Spec == Init /\ [][Next]_vars

\* The catalog cache alone: getCatalog(refresh) calls (list_tools is _get_tools
\* and nothing else) and the fetches they start.
InitCache == InitWith(NGets)

NextCache ==
    \/ \E c \in Callers, refresh \in BOOLEAN : ListTools(c, refresh)
    \/ \E c \in Callers : Resume(c)
    \/ \E f \in TaskIds, tools \in Catalogs : FetchSucceeds(f, tools)
    \/ \E f \in TaskIds : FetchFails(f)

SpecCache == InitCache /\ [][NextCache]_vars

\* ---------------------------------------------------------------- cancellation
\* The task running call c is cancelled.  While c is suspended in
\* "await self._list_task" the event loop hands the cancellation on to the task
\* c waits for, if that task is still running; while c is suspended in the
\* external call only c ends.  Either way CancelledError leaves c through every
\* frame, the "except Exception" of _get_tools included.
Cancel(c) ==
    /\ calls[c].op = "call_tool"
    /\ UNCHANGED translator
    /\ calls[c].pc \in {"await", "invoke"}
    /\ calls' = [calls EXCEPT ![c].pc = "done", ![c].result = "cancelled"]
    /\ tasks' = IF calls[c].pc = "await" /\ tasks[calls[c].awaited].st = "running"
                THEN [tasks EXCEPT ![calls[c].awaited].st = "cancelled"]
                ELSE tasks
    /\ UNCHANGED <<list_task, tool_aliases, alias_src, epoch_log>>

\* call_tool and getCatalog calls, any of the call_tool calls cancellable.
NextCancel ==
    \/ \E c \in Callers, refresh \in BOOLEAN : ListTools(c, refresh)
    \/ \E c \in Callers, name \in {nSearch} : CallTool(c, name)
    \/ \E c \in Callers : Resume(c)
    \/ \E f \in TaskIds, tools \in Catalogs : FetchSucceeds(f, tools)
    \/ \E f \in TaskIds : FetchFails(f)
    \/ \E c \in Callers : InvokeReturns(c, "value")
    \/ \E c \in Callers : Cancel(c)

SpecCancel == InitCache /\ [][NextCancel]_vars

\* ---------------------------------------------------------------- one caller at a time
\* No call is under way: each is yet to be made or has returned.
Quiescent == \A d \in Callers : calls[d].pc \in {"idle", "done"}

\* The facade used by one caller at a time: a call is made only once the one
\* before it has returned.
NextSerial ==
    \/ \E c \in Callers, refresh \in BOOLEAN : Quiescent /\ ListTools(c, refresh)
    \/ \E c \in Callers, refresh \in BOOLEAN : Quiescent /\ RenderToolIndex(c, refresh)
    \/ \E c \in Callers, name \in CallNames : Quiescent /\ CallTool(c, name)
    \/ \E c \in Callers : Resume(c)
    \/ \E f \in TaskIds, tools \in Catalogs : FetchSucceeds(f, tools)
    \/ \E f \in TaskIds : FetchFails(f)
    \/ \E c \in Callers, outcome \in {"value", "call_error"} : InvokeReturns(c, outcome)

SpecSerial == InitCache /\ [][NextSerial]_vars

\* ---------------------------------------------------------------- progress
\* The facade run by an event loop that wakes every awaiter of a finished task,
\* with a provider whose every list_tools request ends, in a list or in an
\* error.  No task is cancelled.  The provider's catalog is one list with a
\* collision in it.
FetchResolves(f) ==
    \/ FetchSucceeds(f, <<Tool(nSearch), Tool(nSearchBang)>>)
    \/ FetchFails(f)

NextLive ==
    \/ \E c \in Callers, refresh \in BOOLEAN : ListTools(c, refresh)
    \/ \E c \in Callers, refresh \in BOOLEAN : RenderToolIndex(c, refresh)
    \/ \E c \in Callers : CallTool(c, nSearch2)
    \/ \E c \in Callers : Resume(c)
    \/ \E f \in TaskIds : FetchResolves(f)
    \/ \E c \in Callers, outcome \in {"value", "call_error"} : InvokeReturns(c, outcome)

\* WF_vars(Resume(c)), with ENABLED <<Resume(c)>>_vars written as the guard
\* Woken(c) it is equal to (a Resume step always changes calls): the event loop
\* runs every wake-up it has scheduled.
LoopFair(c) == []<>(~Woken(c)) \/ []<><<Resume(c)>>_vars

Fairness ==
    /\ \A c \in 1..NCallers : LoopFair(c)
    /\ \A f \in 1..NCallers : WF_vars(FetchResolves(f))

SpecLive == Init /\ [][NextLive]_vars /\ Fairness

\* ---------------------------------------------------------------- registry alone
\* The raw names registered when the registry is driven call by call.
RegNames ==
    { nSearch, nSearchBang, nSearch2, <<>>, <<"!">>, <<"t", "o", "o", "l">>,
      <<"1">>, <<"a", "!", "b">>, <<"a", "?", "b">>, <<"_", "9", "-">> }

\* _reset_tool_aliases
ResetToolAliases ==
    /\ tool_aliases' = EmptyAliases
    /\ UNCHANGED translator
    /\ epoch_log' = <<>>
    /\ UNCHANGED <<list_task, tasks, alias_src, calls>>

\* One call of _tool_name_to_identifier(name)
RegisterName(name) ==
    /\ Len(epoch_log) < MaxRegs
    /\ LET r == ToolNameToIdentifier(tool_aliases, name)
       IN  /\ tool_aliases' = r.table
           /\ epoch_log' = Append(epoch_log, [raw |-> name, id |-> r.id])
    /\ UNCHANGED <<list_task, tasks, alias_src, calls>>
    /\ UNCHANGED translator

NextAlias ==
    \/ ResetToolAliases
    \/ \E name \in RegNames : RegisterName(name)

SpecAlias == InitWith(0) /\ [][NextAlias]_vars

\* ---------------------------------------------------------------- schema values
\* A JSON value is kept with a tag that tells what isinstance would tell, in
\* records of one shape.  Text the translator only compares (type names) is a
\* plain string; text it builds or strips is a sequence of characters.
\*
\* A property schema that is a dict: its "type" (absent, a string, a list of
\* strings, or something else), "items" (absent, a dict, or something else),
\* "enum" (absent, an empty list, a non-empty list, or another true value),
\* "default" (_MISSING, null, or a literal with its repr) and "description"
\* (absent, a string, or something that is no string).
TypeAbsent == [k |-> "absent", v |-> <<>>]

TypeStr(name) == [k |-> "str", v |-> <<name>>]

TypeList(names) == [k |-> "list", v |-> names]

TypeOther == [k |-> "other", v |-> <<>>]

ItemsAbsent == [k |-> "absent", v |-> <<>>]

ItemsDict(schema) == [k |-> "dict", v |-> <<schema>>]

ItemsOther == [k |-> "other", v |-> <<>>]

\* _MISSING
Missing == [k |-> "missing", repr |-> <<>>]

DefaultNull == [k |-> "null", repr |-> <<"N", "o", "n", "e">>]

DefaultValue(repr) == [k |-> "value", repr |-> repr]

DescAbsent == [k |-> "absent", s |-> <<>>]

DescStr(s) == [k |-> "str", s |-> s]

DescOther == [k |-> "other", s |-> <<>>]

PropDict(type, items, enum, default, description) ==
    [dict |-> TRUE, type |-> type, items |-> items, enum |-> enum,
     default |-> default, description |-> description]

\* A property schema that is no dict (a string, a number, null).
PropOther ==
    [dict |-> FALSE, type |-> TypeAbsent, items |-> ItemsAbsent, enum |-> "absent",
     default |-> Missing, description |-> DescAbsent]

\* ---------------------------------------------------------------- schema translator
Whitespace == {" ", "\t", "\n"}

RECURSIVE LStripWs(_)
LStripWs(s) == IF s # <<>> /\ Head(s) \in Whitespace THEN LStripWs(Tail(s)) ELSE s

RECURSIVE RStripWs(_)
RStripWs(s) ==
    IF s # <<>> /\ s[Len(s)] \in Whitespace THEN RStripWs(SubSeq(s, 1, Len(s) - 1)) ELSE s

\* str.strip()
StripWs(s) == RStripWs(LStripWs(s))

\* str.endswith(suffix)
EndsWith(s, suffix) ==
    /\ Len(s) >= Len(suffix)
    /\ SubSeq(s, Len(s) - Len(suffix) + 1, Len(s)) = suffix

\* sep.join(parts)
RECURSIVE Join(_, _)
Join(parts, sep) ==
    IF parts = <<>> THEN <<>>
    ELSE IF Len(parts) = 1 THEN parts[1]
    ELSE parts[1] \o sep \o Join(Tail(parts), sep)

NoDescription == <<"N", "o", " ", "d", "e", "s", "c", "r", "i", "p", "t", "i", "o", "n", " ", "p", "r", "o", "v", "i", "d", "e", "d", ".">>

ObjectAnnotation == <<"o", "b", "j", "e", "c", "t">>

AnyAnnotation == <<"A", "n", "y">>

PipeNone == <<" ", "|", " ", "N", "o", "n", "e">>

TypeMapNumberAsInt(schema_type) ==
    CASE schema_type = "string" -> <<"s", "t", "r">>
      [] schema_type = "integer" -> <<"i", "n", "t">>
      [] schema_type = "number" -> <<"i", "n", "t">>
      [] schema_type = "boolean" -> <<"b", "o", "o", "l">>
      [] schema_type = "array" -> <<"l", "i", "s", "t">>
      [] schema_type = "object" -> <<"d", "i", "c", "t">>
      [] OTHER -> AnyAnnotation

\* type_map.get(schema_type, "Any")
TypeMap(schema_type) ==
    CASE schema_type = "string" -> <<"s", "t", "r">>
      [] schema_type = "integer" -> <<"i", "n", "t">>
      [] schema_type = "number" -> <<"f", "l", "o", "a", "t">>
      [] schema_type = "boolean" -> <<"b", "o", "o", "l">>
      [] schema_type = "array" -> <<"l", "i", "s", "t">>
      [] schema_type = "object" -> <<"d", "i", "c", "t">>
      [] OTHER -> AnyAnnotation

\* next((t for t in schema_type if t != "null"), None), and prop_schema.get("type")
\* itself when it is no list: the name when the outcome is a string, else what
\* it is instead (None, or a value that is no string).
SchemaType(type) ==
    IF type.k = "list"
    THEN LET rest == SelectSeq(type.v, LAMBDA t : t # "null")
         IN  IF rest = <<>> THEN [k |-> "none", v |-> ""] ELSE [k |-> "str", v |-> rest[1]]
    ELSE IF type.k = "str" THEN [k |-> "str", v |-> type.v[1]]
    ELSE IF type.k = "absent" THEN [k |-> "none", v |-> ""]
    ELSE [k |-> "other", v |-> ""]

\* The truth value of prop_schema.get("enum")
EnumTruthy(enum) == enum \in {"list", "other"}

\* _annotation_from_schema
RECURSIVE AnnotationFromSchema(_)
AnnotationFromSchema(prop_schema) ==
    LET type == prop_schema.type
        nullable == type.k = "list" /\ \E i \in 1..Len(type.v) : type.v[i] = "null"
        schema_type == SchemaType(type)
        items == prop_schema.items
        inner == IF items.k = "dict"
                 THEN AnnotationFromSchema(items.v[1]).annotation
                 ELSE AnyAnnotation
        annotation ==
            IF schema_type.k = "str" /\ schema_type.v = "array"
            THEN <<"l", "i", "s", "t", "[">> \o inner \o <<"]">>
            ELSE IF schema_type.k = "none" /\ EnumTruthy(prop_schema.enum)
            THEN <<"s", "t", "r">>
            ELSE IF schema_type.k = "str" THEN TypeMap(schema_type.v)
            ELSE AnyAnnotation
    IN  [annotation |-> annotation, nullable |-> nullable]

\* A schema: whether it is a dict, its "properties" (absent, a dict given by
\* its keys in insertion order and their values, or something else) and its
\* "required" (absent, a list of members, or something else).  A member of
\* "required" is a string, a number, or a list (which cannot be hashed).
PropsAbsent == [k |-> "absent", names |-> <<>>, props |-> <<>>]

PropsDict(names, props) == [k |-> "dict", names |-> names, props |-> props]

PropsOther == [k |-> "other", names |-> <<>>, props |-> <<>>]

ReqAbsent == [k |-> "absent", v |-> <<>>]

ReqList(members) == [k |-> "list", v |-> members]

ReqOther == [k |-> "other", v |-> <<>>]

MemberStr(s) == [k |-> "str", s |-> s]

MemberNum == [k |-> "num", s |-> <<>>]

MemberList == [k |-> "list", s |-> <<>>]

SchemaDict(properties, required) ==
    [dict |-> TRUE, properties |-> properties, required |-> required]

\* tool.inputSchema when it is no dict; _tool_definition passes None on.
SchemaNone == [dict |-> FALSE, properties |-> PropsAbsent, required |-> ReqAbsent]

\* set(required_field) if isinstance(required_field, list) else set(): the
\* strings in the set, or the TypeError of an unhashable member.
RequiredSet(required_field) ==
    IF required_field.k # "list" THEN [raised |-> "none", names |-> {}]
    ELSE IF \E i \in 1..Len(required_field.v) : required_field.v[i].k = "list"
    THEN [raised |-> "TypeError", names |-> {}]
    ELSE [raised |-> "none",
          names |-> {required_field.v[i].s :
                        i \in {j \in 1..Len(required_field.v) : required_field.v[j].k = "str"}}]

DescriptionTextOfKey(description) ==
    IF description.k # "str" THEN [raised |-> "KeyError", text |-> <<>>]
    ELSE [raised |-> "none", text |-> StripWs(description.s)]

\* prop_schema.get("description", "No description provided.").strip()
\*     or "No description provided."
\* and the same expression on tool.description: the text, or the
\* AttributeError of a value that has no strip().
DescriptionText(description) ==
    IF description.k = "other" THEN [raised |-> "AttributeError", text |-> <<>>]
    ELSE LET given == IF description.k = "absent" THEN NoDescription ELSE description.s
             stripped == StripWs(given)
         IN  [raised |-> "none",
              text |-> IF stripped = <<>> THEN NoDescription ELSE stripped]

IsOptionalWithoutDefault(nullable_from_type, is_required, default_value) ==
    nullable_from_type \/ ~is_required

\* optional = nullable_from_type or not is_required or default_value is None
IsOptional(nullable_from_type, is_required, default_value) ==
    nullable_from_type \/ ~is_required \/ default_value.k = "null"

\* if optional and not annotation.endswith(" | None"): annotation += " | None"
WrapOptional(annotation, optional) ==
    IF optional /\ ~EndsWith(annotation, PipeNone) THEN annotation \o PipeNone ELSE annotation

\* One turn of the loop of _schema_parameters: the parameter and the doc entry
\* of one property, or the exception raised on the way.
Parameter(param_name, prop_schema, required) ==
    LET inferred == IF prop_schema.dict
                    THEN AnnotationFromSchema(prop_schema)
                    ELSE [annotation |-> AnyAnnotation, nullable |-> FALSE]
        description == IF prop_schema.dict
                       THEN DescriptionText(prop_schema.description)
                       ELSE [raised |-> "none", text |-> NoDescription]
        is_required == param_name \in required
        default_value == IF prop_schema.dict THEN prop_schema.default ELSE Missing
        optional == IsOptional(inferred.nullable, is_required, default_value)
        annotation == WrapOptional(inferred.annotation, optional)
        param_str == param_name \o <<":", " ">> \o annotation
                       \o (IF default_value # Missing THEN <<" ", "=", " ">> \o default_value.repr
                           ELSE IF ~is_required THEN <<" ", "=", " ", "N", "o", "n", "e">>
                           ELSE <<>>)
        meta_parts == (IF default_value # Missing
                       THEN <<<<"d", "e", "f", "a", "u", "l", "t", "=">> \o default_value.repr>> ELSE <<>>)
                       \o <<IF is_required THEN <<"r", "e", "q", "u", "i", "r", "e", "d">> ELSE <<"o", "p", "t", "i", "o", "n", "a", "l">>>>
        meta_text == <<" ", "[">> \o Join(meta_parts, <<",", " ">>) \o <<"]">>
    IN  [raised |-> description.raised,
         param |-> param_str,
         doc |-> param_name \o <<" ", "(">> \o annotation \o <<")", ":", " ">> \o description.text \o meta_text]

ParametersButLast(names, props, required) ==
    [i \in 1..(Len(names) - 1) |-> Parameter(names[i], props[i], required)]

\* The loop of _schema_parameters over properties.items(), in the dict's order.
Parameters(names, props, required) ==
    [i \in 1..Len(names) |-> Parameter(names[i], props[i], required)]

\* _schema_parameters: the signature and the doc entries, or the exception.
SchemaParameters(schema) ==
    IF ~schema.dict \/ schema.properties.k # "dict" \/ schema.properties.names = <<>>
    THEN [raised |-> "none", signature |-> <<"(", ")">>, doc_entries |-> <<>>]
    ELSE LET required == RequiredSet(schema.required)
             each == Parameters(schema.properties.names, schema.properties.props,
                                required.names)
             failed == {i \in 1..Len(each) : each[i].raised # "none"}
         IN  IF required.raised # "none"
             THEN [raised |-> required.raised, signature |-> <<>>, doc_entries |-> <<>>]
             ELSE IF failed # {}
             THEN [raised |-> each[CHOOSE i \in failed : \A j \in failed : i <= j].raised,
                   signature |-> <<>>, doc_entries |-> <<>>]
             ELSE [raised |-> "none",
                   signature |-> <<"(", "*", ",", " ">>
                       \o Join([i \in 1..Len(each) |-> each[i].param], <<",", " ">>) \o <<")">>,
                   doc_entries |-> [i \in 1..Len(each) |-> each[i].doc]]

\* The lines of a definition: the def line, the docstring with the description
\* and, when there are doc entries, the Args section, and the body.
DefinitionLines(func_name, signature, description, doc_entries) ==
    LET def_line == <<"d", "e", "f", " ">> \o func_name \o signature \o <<":">>
        doc_lines == <<description>>
                       \o (IF doc_entries # <<>>
                           THEN <<<<>>, <<"A", "r", "g", "s", ":">>>>
                                  \o [i \in 1..Len(doc_entries) |->
                                         <<" ", " ", " ", " ">> \o doc_entries[i]]
                           ELSE <<>>)
    IN  <<def_line, <<" ", " ", " ", " ", "\"", "\"", "\"">>>>
          \o [i \in 1..Len(doc_lines) |-> <<" ", " ", " ", " ">> \o doc_lines[i]]
          \o <<<<" ", " ", " ", " ", "\"", "\"", "\"">>,
               <<" ", " ", " ", " ", "p", "a", "s", "s">>>>

\* _tool_definition with the alias table as it stands: the text of the
\* definition and the table afterwards, or the exception.  The identifier is
\* registered before anything can raise.  Each of the three calls is made once
\* and its value bound.
ToolDefinition(table, tool) ==
    LET Definition(func_name, translated, description) ==
            IF translated.raised # "none"
            THEN [raised |-> translated.raised, text |-> <<>>, table |-> func_name.table]
            ELSE IF description.raised # "none"
            THEN [raised |-> description.raised, text |-> <<>>, table |-> func_name.table]
            ELSE [raised |-> "none",
                  text |-> CHOOSE text \in
                               {Join(lines, <<"\n">>) :
                                   lines \in {DefinitionLines(func_name.id,
                                       translated.signature, description.text,
                                       translated.doc_entries)}} : TRUE,
                  table |-> func_name.table]
    IN  CHOOSE definition \in
            {Definition(func_name, translated, description) :
                func_name \in {ToolNameToIdentifier(table, tool.name)},
                translated \in {SchemaParameters(tool.inputSchema)},
                description \in {DescriptionText(tool.description)}} : TRUE

\* One more tool in the list comprehension of render_tool_index: its
\* definition is appended, or its exception ends the render.
RenderedTool(before, tool) ==
    IF before.raised # "none" THEN before
    ELSE CHOOSE after \in
             {[raised |-> this.raised,
               definitions |-> IF this.raised = "none"
                               THEN Append(before.definitions, this.text)
                               ELSE before.definitions,
               table |-> this.table] :
                 this \in {ToolDefinition(before.table, tool)}} : TRUE

\* The list comprehension of render_tool_index after _reset_tool_aliases: the
\* definitions of the first n tools, in order.
RECURSIVE RenderedTools(_, _)
RenderedTools(tools, n) ==
    IF n = 0 THEN [raised |-> "none", definitions |-> <<>>, table |-> EmptyAliases]
    ELSE CHOOSE after \in
             {RenderedTool(before, tools[n]) :
                 before \in {RenderedTools(tools, n - 1)}} : TRUE

\* ---------------------------------------------------------------- translator inputs
\* A property schema of a given type with nothing else in it.
Bare(type) == PropDict(type, ItemsAbsent, "absent", Missing, DescAbsent)

\* The schemas met under "items", nested to a depth.
RECURSIVE ItemSchemas(_)
ItemSchemas(depth) ==
    IF depth = 0
    THEN {Bare(TypeStr("string")), Bare(TypeList(<<"integer", "null">>)),
          Bare(TypeAbsent), Bare(TypeStr("array"))}
    ELSE ItemSchemas(depth - 1)
           \cup {PropDict(TypeStr("array"), ItemsDict(s), "absent", Missing, DescAbsent) :
                    s \in ItemSchemas(depth - 1)}

TypeNames == {"string", "integer", "number", "boolean", "object", "array", "null", "uuid"}

TypeLists ==
    {<<"string", "null">>, <<"null", "integer">>, <<"null">>, <<>>,
     <<"array", "null">>, <<"uuid", "string">>}

Types ==
    {TypeAbsent, TypeOther} \cup {TypeStr(t) : t \in TypeNames}
        \cup {TypeList(l) : l \in TypeLists}

\* "items" is varied where the type can come out as array.
ItemsOf(type) ==
    IF type \in {TypeStr("array"), TypeList(<<"array", "null">>)}
    THEN {ItemsAbsent, ItemsOther} \cup {ItemsDict(s) : s \in ItemSchemas(MaxDepth - 1)}
    ELSE {ItemsAbsent}

Enums == {"absent", "empty", "list", "other"}

Defaults == {Missing, DefaultNull, DefaultValue(<<"5">>)}

Descriptions == {DescAbsent, DescStr(<<"s", "e", "a", "r", "c", "h", " ", "t", "e", "x", "t">>), DescStr(<<" ">>), DescOther}

\* Every type with every items, enum and default; every description with a
\* string-typed property; and a property schema that is no dict.
PropSchemas ==
    {PropOther}
      \cup UNION {{PropDict(type, items, enum, default, DescAbsent) :
                      items \in ItemsOf(type), enum \in Enums, default \in Defaults} :
                  type \in Types}
      \cup {PropDict(TypeStr("string"), ItemsAbsent, "absent", default, description) :
               default \in Defaults, description \in Descriptions}

pQuery == <<"q", "u", "e", "r", "y">>

pLimit == <<"l", "i", "m", "i", "t">>

\* The "required" fields tried with a schema whose one property is query.
RequiredFields ==
    {ReqAbsent, ReqOther, ReqList(<<>>), ReqList(<<MemberStr(pQuery)>>),
     ReqList(<<MemberNum, MemberStr(pQuery)>>), ReqList(<<MemberList>>)}

\* The property schemas tried with each of them.
RequiredProps ==
    {PropOther, Bare(TypeStr("string")), Bare(TypeList(<<"string", "null">>)),
     PropDict(TypeStr("string"), ItemsAbsent, "absent", DefaultNull, DescAbsent)}

\* The property schemas tried two at a time.
PairProps ==
    {PropOther, Bare(TypeList(<<"string", "null">>)),
     PropDict(TypeStr("integer"), ItemsAbsent, "absent", DefaultValue(<<"5">>), DescAbsent),
     PropDict(TypeStr("string"), ItemsAbsent, "absent", Missing, DescStr(<<"s", "e", "a", "r", "c", "h", " ", "t", "e", "x", "t">>))}

Schemas ==
    {SchemaNone, SchemaDict(PropsAbsent, ReqAbsent), SchemaDict(PropsOther, ReqAbsent),
     SchemaDict(PropsDict(<<>>, <<>>), ReqList(<<MemberStr(pQuery)>>))}
      \cup {SchemaDict(PropsDict(<<pQuery>>, <<p>>), required) :
               p \in PropSchemas,
               required \in {ReqAbsent, ReqList(<<MemberStr(pQuery)>>)}}
      \cup {SchemaDict(PropsDict(<<pQuery>>, <<p>>), required) :
               p \in RequiredProps, required \in RequiredFields}
      \cup {SchemaDict(PropsDict(names, <<p1, p2>>), ReqList(<<MemberStr(pQuery)>>)) :
               names \in {<<pQuery, pLimit>>, <<pLimit, pQuery>>},
               p1 \in PairProps, p2 \in PairProps}

\* tool.description: a text, blanks, or None.
ToolDescriptions == {DescStr(<<"S", "e", "a", "r", "c", "h", ".">>), DescStr(<<" ">>), DescOther}

\* The schemas tried with each of them.
DescribedSchemas ==
    {SchemaNone, SchemaDict(PropsDict(<<>>, <<>>), ReqList(<<MemberStr(pQuery)>>)),
     SchemaDict(PropsDict(<<pQuery>>, <<Bare(TypeStr("string"))>>), ReqAbsent)}

ToolInputs ==
    {[name |-> nSearchBang, description |-> DescStr(<<"S", "e", "a", "r", "c", "h", ".">>),
      inputSchema |-> schema] : schema \in Schemas}
      \cup {[name |-> nSearchBang, description |-> description, inputSchema |-> schema] :
               description \in ToolDescriptions, schema \in DescribedSchemas}

\* A tool with nothing wrong in it, rendered next to the tool under translation.
PlainTool ==
    [name |-> nOther, description |-> DescStr(<<"O", "t", "h", "e", "r", ".">>),
     inputSchema |-> SchemaDict(PropsDict(<<pLimit>>, <<Bare(TypeStr("integer"))>>),
                                ReqAbsent)]

\* ---------------------------------------------------------------- translator alone
InitSchema ==
    /\ list_task = 0
    /\ tasks = <<>>
    /\ tool_aliases = EmptyAliases
    /\ alias_src = 0
    /\ calls = <<>>
    /\ epoch_log = <<>>
    /\ tool_in \in ToolInputs
    /\ out = NoOutput

\* _schema_parameters(tool.inputSchema)
ApplySchemaParameters ==
    /\ out = NoOutput
    /\ out' = [fn |-> "_schema_parameters", arg |-> tool_in.inputSchema,
               r |-> SchemaParameters(tool_in.inputSchema)]
    /\ UNCHANGED <<list_task, tasks, tool_aliases, alias_src, calls, epoch_log, tool_in>>

\* _annotation_from_schema on the i-th property schema, when it is a dict
ApplyAnnotationFromSchema(i) ==
    /\ out = NoOutput
    /\ tool_in.inputSchema.properties.k = "dict"
    /\ i \in 1..Len(tool_in.inputSchema.properties.props)
    /\ tool_in.inputSchema.properties.props[i].dict
    /\ out' = [fn |-> "_annotation_from_schema",
               arg |-> tool_in.inputSchema.properties.props[i],
               r |-> AnnotationFromSchema(tool_in.inputSchema.properties.props[i])]
    /\ UNCHANGED <<list_task, tasks, tool_aliases, alias_src, calls, epoch_log, tool_in>>

\* _tool_definition(tool) on an empty alias table
ApplyToolDefinition ==
    /\ out = NoOutput
    /\ LET r == ToolDefinition(tool_aliases, tool_in)
       IN  /\ out' = [fn |-> "_tool_definition", arg |-> tool_in, r |-> r]
           /\ tool_aliases' = r.table
    /\ UNCHANGED <<list_task, tasks, alias_src, calls, epoch_log, tool_in>>

\* render_tool_index once _get_tools has returned the catalog tools
ApplyRenderToolIndex(tools) ==
    /\ out = NoOutput
    /\ LET r == RenderedTools(tools, Len(tools))
       IN  /\ out' = [fn |-> "render_tool_index", arg |-> tools, r |-> r]
           /\ tool_aliases' = r.table
    /\ UNCHANGED <<list_task, tasks, alias_src, calls, epoch_log, tool_in>>

NextSchema ==
    \/ ApplySchemaParameters
    \/ \E i \in 1..2 : ApplyAnnotationFromSchema(i)
    \/ ApplyToolDefinition
    \/ \E tools \in {<<tool_in, PlainTool>>, <<PlainTool, tool_in>>} :
           ApplyRenderToolIndex(tools)

SpecSchema == InitSchema /\ [][NextSchema]_vars

\* ---------------------------------------------------------------- render, then call
\* A well-formed tool named search, listed next to the tool under translation
\* (named search!): the second of the two is given the identifier search_2.
PlainSearch == [PlainTool EXCEPT !.name = nSearch]

\* One call_tool to be made, the catalog not yet rendered.
InitRender ==
    /\ list_task = 0
    /\ tasks = <<NoTask>>
    /\ tool_aliases = EmptyAliases
    /\ alias_src = 0
    /\ calls = <<IdleCall>>
    /\ epoch_log = <<>>
    /\ tool_in \in ToolInputs
    /\ out = NoOutput

\* render_tool_index on a catalog of two tools with their schemas, whether it
\* returns or raises, and after it a call_tool.
NextRender ==
    \/ \E tools \in {<<tool_in, PlainSearch>>, <<PlainSearch, tool_in>>} :
           ApplyRenderToolIndex(tools)
    \/ \E name \in CallNames : out.fn = "render_tool_index" /\ CallTool(1, name)
    \/ \E outcome \in {"value", "call_error"} : InvokeReturns(1, outcome)

SpecRender == InitRender /\ [][NextRender]_vars

\* ---------------------------------------------------------------- properties
Started == {c \in Callers : calls[c].pc # "idle"}

Running == {f \in TaskIds : tasks[f].st = "running"}

\* What _get_tools hands a call that awaited task f, once f is done.
Outcome(f) == IF tasks[f].st = "ok" THEN "tools" ELSE "fetch_error"

\* Call c was handed the outcome of task f, and nothing else.
ReturnedFrom(c, f) ==
    /\ calls[c].from = f
    /\ calls[c].result = Outcome(f)
    /\ calls[c].tools = tasks[f].tools

\* C1: single-flight.  When every getCatalog call made so far asked
\* refresh=false and was made before any call returned (N concurrent calls on
\* an Empty cache), exactly one fetch task has been created, every call awaits
\* it, and every call that has returned was handed that task's outcome, so all
\* results are identical.
C1_SingleFlight ==
    (/\ Started # {}
     /\ \A c \in Started : ~calls[c].refresh /\ calls[c].early)
    => /\ NumTasks = 1
       /\ \A c \in Started : calls[c].awaited = 1
       /\ \A c \in Started : calls[c].pc = "done" => ReturnedFrom(c, 1)
       /\ \A c, d \in Started :
            calls[c].pc = "done" /\ calls[d].pc = "done"
            => calls[c].result = calls[d].result /\ calls[c].tools = calls[d].tools

\* All NGets calls were concurrent refresh=false calls and have returned the
\* tool list of the one fetch.
C1_Witness ==
    /\ Started = Callers
    /\ Cardinality(Callers) >= 3
    /\ \A c \in Callers :
         /\ ~calls[c].refresh /\ calls[c].early
         /\ calls[c].pc = "done" /\ calls[c].result = "tools"
         /\ calls[c].tools # <<>>

\* C2: refresh supersedes.  A getCatalog(refresh=true) made while the cache
\* held a running fetch created a new task of its own and awaits that one; and
\* every earlier call that awaited the old task and has returned was handed the
\* old task's outcome, not the new task's.
C2_RefreshSupersedes ==
    \A c \in Started :
        (calls[c].refresh /\ calls[c].entry # 0 /\ calls[c].entrySt = "running")
        => /\ calls[c].awaited # calls[c].entry
           /\ tasks[calls[c].awaited].by = c
           /\ \A d \in Started :
                (d < c /\ calls[d].awaited = calls[c].entry /\ calls[d].pc = "done")
                => /\ ReturnedFrom(d, calls[c].entry)
                   /\ calls[d].from # calls[c].awaited

\* Call 1 awaited task 1, call 2 refreshed while task 1 was running; both tasks
\* succeeded with different tool lists and both calls returned, each its own.
C2_Witness ==
    \E c, d \in Callers :
        /\ d < c /\ calls[c].refresh /\ calls[c].entrySt = "running"
        /\ calls[d].awaited = calls[c].entry
        /\ calls[d].pc = "done" /\ calls[c].pc = "done"
        /\ calls[d].result = "tools" /\ calls[c].result = "tools"
        /\ calls[d].tools # calls[c].tools

\* C3: fetch failure.  (a) A call that has returned from a failed task was
\* handed that task's failure.  (b) The cache never holds a failed task of
\* which some awaiter has already returned.  (c) The step in which a call is
\* handed the failure leaves the cache Empty, and a refresh=false call made on
\* an Empty cache creates a new running task.
C3_FailureState ==
    /\ \A c \in Started :
         (calls[c].pc = "done" /\ tasks[calls[c].awaited].st = "failed")
         => ReturnedFrom(c, calls[c].awaited) /\ calls[c].result = "fetch_error"
    /\ (list_task # 0 /\ tasks[list_task].st = "failed")
         => /\ \A c \in Callers : calls[c].from # list_task
            /\ \E c \in Callers : calls[c].pc = "await" /\ calls[c].awaited = list_task

C3_FailureStep ==
    \A c \in Callers :
        /\ (calls[c].result = "none" /\ calls'[c].result = "fetch_error")
             => list_task' = 0
        /\ (calls[c].pc = "idle" /\ calls'[c].pc # "idle" /\ ~calls'[c].refresh
              /\ list_task = 0)
             => /\ list_task' # 0
                /\ tasks[list_task'].st = "none"
                /\ tasks'[list_task'].st = "running"
                /\ calls'[c].awaited = list_task'

\* C3: the failure semantics above, in every state and at every step.
C3_FetchFailure == []C3_FailureState /\ [][C3_FailureStep]_vars

\* Two calls awaited task 1, which failed; both were handed the failure, the
\* cache is Empty again and a later refresh=false call started a new task.
C3_Witness ==
    \E c, d, e \in Callers :
        /\ c < d /\ d < e
        /\ calls[c].awaited = 1 /\ calls[d].awaited = 1
        /\ calls[c].result = "fetch_error" /\ calls[d].result = "fetch_error"
        /\ ~calls[e].refresh /\ calls[e].entry = 0 /\ ~calls[e].early
        /\ calls[e].awaited # 1 /\ calls[e].pc # "idle"

\* C4: reuse.  A getCatalog(refresh=false) made while the cache held a running
\* or successfully finished task created no task, awaits the task the cache
\* held at that moment, and, once it has returned, was handed that task's
\* outcome.
C4_ReuseCurrent ==
    \A c \in Started :
        (~calls[c].refresh /\ calls[c].entry # 0
           /\ calls[c].entrySt \in {"running", "ok"})
        => /\ \A f \in TaskIds : tasks[f].by # c
           /\ calls[c].awaited = calls[c].entry
           /\ calls[c].pc = "done" => ReturnedFrom(c, calls[c].entry)

\* One refresh=false call found the cache Fetching and one found it Ready; both
\* have returned.
C4_Witness ==
    \E c, d \in Callers :
        /\ ~calls[c].refresh /\ calls[c].entrySt = "running" /\ calls[c].pc = "done"
        /\ ~calls[d].refresh /\ calls[d].entrySt = "ok" /\ calls[d].pc = "done"

\* C5: at most one catalog fetch is in flight (created and not yet finished).
C5_AtMostOneInFlight == Cardinality(Running) <= 1

\* The same for runs of refresh=false calls only.  It takes four calls to break
\* it (NGets = 4): two await a task that fails, the first to resume empties the
\* cache, a third call starts a new task, the second awaiter's failure reset
\* drops that running task, and a fourth call starts another.
C5_NoRefreshAtMostOneInFlight ==
    (\A c \in Started : ~calls[c].refresh) => Cardinality(Running) <= 1

LogIndex == 1..Len(epoch_log)

\* C6: alias injectivity within an epoch.  Every identifier returned by a
\* registration since the last reset is still bound to the raw name it was
\* returned for (no binding was overwritten), the table holds no other entry,
\* and so no identifier was returned for two distinct raw names.
C6_AliasInjective ==
    /\ \A i \in LogIndex :
         /\ epoch_log[i].id \in DOMAIN tool_aliases
         /\ tool_aliases[epoch_log[i].id] = epoch_log[i].raw
    /\ DOMAIN tool_aliases = {epoch_log[i].id : i \in LogIndex}
    /\ \A i, j \in LogIndex :
         epoch_log[i].id = epoch_log[j].id => epoch_log[i].raw = epoch_log[j].raw

\* An epoch with two distinct raw names that sanitise to the same candidate, a
\* raw name registered twice, and the empty raw name.
C6_Witness ==
    /\ \E i, j \in LogIndex :
         /\ epoch_log[i].raw # epoch_log[j].raw
         /\ Sanitize(epoch_log[i].raw) = Sanitize(epoch_log[j].raw)
    /\ \E i, j \in LogIndex : i # j /\ epoch_log[i].raw = epoch_log[j].raw
    /\ \E i \in LogIndex : epoch_log[i].raw = <<>>

\* C7: alias idempotence within an epoch.  Two registrations of the same raw
\* name returned the same identifier, and the table has exactly one entry per
\* distinct raw name registered.
C7_AliasIdempotent ==
    /\ \A i, j \in LogIndex :
         epoch_log[i].raw = epoch_log[j].raw => epoch_log[i].id = epoch_log[j].id
    /\ Cardinality(DOMAIN tool_aliases)
         = Cardinality({epoch_log[i].raw : i \in LogIndex})

\* A raw name that got a suffixed identifier was registered again after a
\* registration of another raw name.
C7_Witness ==
    \E i, j, k \in LogIndex :
        /\ i < j /\ j < k
        /\ epoch_log[i].raw = epoch_log[k].raw
        /\ epoch_log[j].raw # epoch_log[i].raw
        /\ epoch_log[i].id # Sanitize(epoch_log[i].raw)

\* The step in which call_tool of call c computes resolved_name.
Resolves(c) == calls[c].pc # "invoke" /\ calls'[c].pc = "invoke"

\* C8: resolve.  When call_tool resolves name x against the alias table, it
\* gets the raw name bound to x if x is a key of the table, and x itself if x
\* is no key of the table.
C8_Resolve ==
    [][\A c \in Callers :
         Resolves(c) =>
           LET x == calls'[c].name
           IN  /\ x \in DOMAIN tool_aliases'
                    => calls'[c].resolved = tool_aliases'[x]
               /\ x \notin DOMAIN tool_aliases'
                    => calls'[c].resolved = x]_vars

\* One call_tool resolved a registered identifier to another raw name, and one
\* resolved a name that is no key of the table to itself.
C8_Witness ==
    \E c, d \in Callers :
        /\ calls[c].op = "call_tool" /\ calls[c].name = nSearch2
        /\ calls[c].resolved \in {nSearch, nSearchBang}
        /\ calls[d].op = "call_tool" /\ calls[d].name = nOther
        /\ calls[d].resolved = nOther

\* The raw names of the tool list the alias table was last built from.
AliasedNames(src, tks) ==
    IF src = 0 THEN {} ELSE {tks[src].tools[i].name : i \in 1..Len(tks[src].tools)}

\* C9: a tool can be addressed by its raw name.  When call_tool resolves a name
\* that is the raw name of a tool of the list the alias table was built from,
\* the canonical name it delegates with is that same raw name.
C9_RawNameAddressable ==
    [][\A c \in Callers :
         (Resolves(c) /\ calls'[c].name \in AliasedNames(alias_src', tasks'))
         => calls'[c].resolved = calls'[c].name]_vars

SearchFirst == <<Tool(nSearch), Tool(nSearchBang)>>

BangFirst == <<Tool(nSearchBang), Tool(nSearch)>>

\* The tool list the alias table was last built from.
AliasedTools == IF alias_src = 0 THEN <<>> ELSE tasks[alias_src].tools

\* C10 as stated: whenever the table was built from a tool list holding the two
\* tools "search" and "search!", its identifiers are search and search_2, and
\* search_2 resolves to "search!".
C10_CollisionAnyOrder ==
    AliasedTools \in {SearchFirst, BangFirst}
    => /\ DOMAIN tool_aliases = {nSearch, nSearch2}
       /\ Resolve(tool_aliases, nSearch2) = nSearchBang

\* C10, amended: built from "search" then "search!", the table binds search to
\* "search" and search_2 to "search!"; built from "search!" then "search", it
\* binds search to "search!" and search_2 to "search".
C10_CollisionInOrder ==
    /\ AliasedTools = SearchFirst
         => /\ tool_aliases = (nSearch :> nSearch) @@ (nSearch2 :> nSearchBang)
            /\ Resolve(tool_aliases, nSearch2) = nSearchBang
    /\ AliasedTools = BangFirst
         => /\ tool_aliases = (nSearch :> nSearchBang) @@ (nSearch2 :> nSearch)
            /\ Resolve(tool_aliases, nSearch2) = nSearch

\* A render_tool_index has built the table from "search" then "search!".
C10_Witness ==
    /\ AliasedTools = SearchFirst
    /\ \E c \in Callers :
         calls[c].op = "render_tool_index" /\ calls[c].pc = "done"
           /\ calls[c].from = alias_src
    /\ nSearch2 \in DOMAIN tool_aliases

\* The candidate of a raw name, stated position by position: the characters
\* between the first and the last character of [0-9A-Za-z_] other than "_",
\* each character outside the class read as "_"; "tool" if there is no such
\* character; "tool_" put in front of a leading digit.
CandidateOf(raw) ==
    LET keep == {i \in 1..Len(raw) : raw[i] \in (Digits \cup Letters)}
        lo == CHOOSE i \in keep : \A j \in keep : i <= j
        hi == CHOOSE i \in keep : \A j \in keep : j <= i
        core == IF keep = {}
                THEN <<"t", "o", "o", "l">>
                ELSE [i \in 1..(hi - lo + 1) |->
                        IF raw[lo + i - 1] \in (Digits \cup Letters \cup {"_"})
                        THEN raw[lo + i - 1] ELSE "_"]
    IN  IF core[1] \in Digits THEN <<"t", "o", "o", "l", "_">> \o core ELSE core

WellFormedIdentifier(id) ==
    /\ id # <<>>
    /\ \A i \in 1..Len(id) : id[i] \in (Digits \cup Letters \cup {"_"})
    /\ id[1] \notin Digits

\* C11: sanitize.  Every identifier returned for a raw name in the epoch is the
\* candidate of that raw name, or that candidate followed by "_k" for some
\* k >= 2; it is non-empty, made of [0-9A-Za-z_] only, and starts with no digit.
C11_SanitizeWellFormed ==
    \A i \in LogIndex :
        LET raw == epoch_log[i].raw
            id == epoch_log[i].id
        IN  /\ WellFormedIdentifier(id)
            /\ \/ id = CandidateOf(raw)
               \/ \E k \in 2..(Len(epoch_log) + 1) :
                    id = CandidateOf(raw) \o <<"_">> \o Decimal(k)

\* The empty name, a name of special characters only, a name whose first kept
\* character is a digit and a name that got a suffix were all registered.
C11_Witness ==
    /\ \E i \in LogIndex : epoch_log[i].raw = <<>>
    /\ \E i \in LogIndex :
         epoch_log[i].raw = <<"!">> /\ epoch_log[i].id # <<"t", "o", "o", "l">>
    /\ \E i \in LogIndex :
         epoch_log[i].raw = <<"_", "9", "-">>
           /\ epoch_log[i].id = <<"t", "o", "o", "l", "_", "9">>

\* The table after the first n names of a list were registered, one after the
\* other, on an empty table.
RECURSIVE TableAfter(_, _)
TableAfter(names, n) ==
    IF n = 0
    THEN EmptyAliases
    ELSE RegisterToolAlias(TableAfter(names, n - 1), names[n], Sanitize(names[n])).table

\* The step in which call c comes back from _get_tools with a tool list and
\* runs its alias-building pass (render_tool_index, or _ensure_tool_aliases of
\* call_tool).
PassCompletes(c) ==
    /\ calls[c].from = 0
    /\ calls'[c].from # 0
    /\ calls'[c].op \in {"render_tool_index", "call_tool"}
    /\ calls'[c].result # "fetch_error"

\* C12: the alias-building pass.  When a pass completes, the call was handed the
\* tool list of the task it awaited, and the alias table is exactly the table
\* obtained from the empty table by registering the names of that list in
\* order, whatever the table held before.
C12_PassRebuildsTable ==
    [][\A c \in Callers :
         PassCompletes(c)
         => /\ calls'[c].tools = tasks[calls'[c].awaited].tools
            /\ tool_aliases'
                 = TableAfter(ToolNames(calls'[c].tools), Len(calls'[c].tools))]_vars

\* Call 1 built the table from "search", "search!"; then the refreshing call 2
\* built it from "search!", "search", and search is now bound to "search!".
C12_Witness ==
    /\ Cardinality(Callers) >= 2
    /\ calls[1].pc = "done" /\ calls[1].op = "render_tool_index"
    /\ calls[1].tools = SearchFirst
    /\ calls[2].pc = "done" /\ calls[2].op = "render_tool_index"
    /\ calls[2].tools = BangFirst
    /\ alias_src = calls[2].from /\ calls[2].from # calls[1].from
    /\ tool_aliases[nSearch] = nSearchBang

\* The step in which call c is made, as a call_tool.
CallToolStarts(c) == calls[c].pc = "idle" /\ calls'[c].op = "call_tool"

\* C13: call_tool never forces a refresh.  The step in which a call_tool is
\* made goes to the catalog exactly when the alias table is empty; it creates no
\* task and leaves the cache's task in place when the cache holds a running or
\* successfully finished task; and with a non-empty alias table it changes
\* neither the cache nor any task.  The step in which a call_tool resumes from
\* its await creates no task either.
C13_CallToolNoRefresh ==
    [][\A c \in Callers :
         /\ CallToolStarts(c)
              => /\ (calls'[c].awaited # 0) <=> (tool_aliases = EmptyAliases)
                 /\ CacheState \in {"running", "ok"}
                      => tasks' = tasks /\ list_task' = list_task
                 /\ tool_aliases # EmptyAliases
                      => tasks' = tasks /\ list_task' = list_task
                 /\ CacheState = "empty" /\ tool_aliases = EmptyAliases
                      => tasks'[list_task'].by = c
         /\ (calls[c].op = "call_tool" /\ calls[c].pc = "await" /\ calls'[c].pc # "await")
              => \A f \in TaskIds : tasks'[f].st = "none" <=> tasks[f].st = "none"]_vars

\* A call_tool was made with a non-empty alias table while the cache was Ready,
\* and went straight to the external call.
C13_Witness ==
    \E c \in Callers :
        /\ calls[c].op = "call_tool" /\ calls[c].pc = "invoke"
        /\ calls[c].awaited = 0 /\ calls[c].entrySt = "ok"
        /\ tool_aliases # EmptyAliases

\* The step in which the external invocation of call c returns or raises.
InvokeEnds(c) == calls[c].pc = "invoke" /\ calls'[c].pc = "done"

\* C14: the step that ends the external invocation of a call_tool hands the
\* caller the invocation's own outcome, a value or its failure, and nothing
\* else of the call changes; when the outcome is a failure (a timeout included)
\* the alias table, the cache's task reference and every task are what they
\* were before the step.
C14_InvokeFrame ==
    [][\A c \in Callers :
         InvokeEnds(c)
           => /\ calls'[c].result \in {"value", "call_error"}
              /\ calls'[c] = [calls[c] EXCEPT !.pc = "done", !.result = calls'[c].result]
              /\ calls'[c].result = "call_error"
                   => /\ tool_aliases' = tool_aliases
                      /\ list_task' = list_task
                      /\ tasks' = tasks
                      /\ alias_src' = alias_src]_vars

\* An external invocation failed while the alias table was built and the cache
\* was Ready, and both are still so.
C14_Witness ==
    \E c \in Callers :
        /\ calls[c].op = "call_tool" /\ calls[c].pc = "done"
        /\ calls[c].result = "call_error"
        /\ tool_aliases # EmptyAliases
        /\ CacheState = "ok"

\* C15: a cancelled call_tool leaves the cache sound: no call that was not
\* itself cancelled is handed a cancellation in place of the fetch's result or
\* failure, and the cache never holds a cancelled task, from which every later
\* getCatalog(refresh=false) would fail.
C15_CancelledInvokeHarmless ==
    /\ \A c \in Callers : calls[c].result # "fetch_cancelled"
    /\ CacheState # "cancelled"

\* The first place at or after i where pat occurs in s, 0 when there is none.
RECURSIVE FirstAt(_, _, _)
FirstAt(s, pat, i) ==
    IF i + Len(pat) - 1 > Len(s) THEN 0
    ELSE IF SubSeq(s, i, i + Len(pat) - 1) = pat THEN i
    ELSE FirstAt(s, pat, i + 1)

StartsWith(s, prefix) == Len(s) >= Len(prefix) /\ SubSeq(s, 1, Len(prefix)) = prefix

\* The annotation shown in a doc entry "<name> (<annotation>): ...".
AnnotationShown(entry, name) ==
    SubSeq(entry, Len(name) + 3, FirstAt(entry, <<")", ":", " ">>, Len(name) + 3) - 1)

\* _schema_parameters was applied to a schema with properties and returned.
Translated ==
    /\ out.fn = "_schema_parameters"
    /\ out.arg.dict /\ out.arg.properties.k = "dict" /\ out.arg.properties.names # <<>>
    /\ out.r.raised = "none"

PropNames == out.arg.properties.names

PropAt(i) == out.arg.properties.props[i]

\* The three flags of the rule, read from the schema itself.
NullableFromUnion(p) ==
    p.dict /\ p.type.k = "list" /\ \E j \in 1..Len(p.type.v) : p.type.v[j] = "null"

DeclaredRequired(schema, name) ==
    /\ schema.required.k = "list"
    /\ \E j \in 1..Len(schema.required.v) : schema.required.v[j] = MemberStr(name)

NullDefault(p) == p.dict /\ p.default.k = "null"

\* C16: for every property of a translated schema the annotation shown ends in
\* " | None" exactly when the property's type is a union with null, or the
\* property is not required, or it has an explicit default that is null; the
\* suffix is there at most once; the parameter in the signature carries the
\* same annotation; and a property of type ["string", "null"] is shown as
\* "str | None" whether or not it is required.
C16_NullableRule ==
    Translated =>
        \A i \in 1..Len(PropNames) :
            LET shown == AnnotationShown(out.r.doc_entries[i], PropNames[i])
                optional == \/ NullableFromUnion(PropAt(i))
                            \/ ~DeclaredRequired(out.arg, PropNames[i])
                            \/ NullDefault(PropAt(i))
            IN  /\ StartsWith(out.r.doc_entries[i], PropNames[i] \o <<" ", "(">>)
                /\ EndsWith(shown, PipeNone) <=> optional
                /\ ~EndsWith(SubSeq(shown, 1, Len(shown) - Len(PipeNone)), PipeNone)
                /\ FirstAt(out.r.signature, PropNames[i] \o <<":", " ">> \o shown, 1) # 0
                /\ (PropAt(i).dict /\ PropAt(i).type = TypeList(<<"string", "null">>))
                     => shown = <<"s", "t", "r", " ", "|", " ", "N", "o", "n", "e">>

\* A required property of type ["string", "null"] without default was shown as
\* "str | None", next to the case of a required string with a null default.
C16_Witness ==
    /\ Translated
    /\ PropNames = <<pQuery>>
    /\ DeclaredRequired(out.arg, pQuery)
    /\ PropAt(1).dict /\ PropAt(1).type = TypeList(<<"string", "null">>)
    /\ PropAt(1).default = Missing
    /\ out.r.signature = <<"(", "*", ",", " ", "q", "u", "e", "r", "y", ":", " ", "s", "t", "r", " ", "|", " ", "N", "o", "n", "e", ")">>

\* The schema's faults are among those of the totality clause (schema or
\* properties absent, empty or no mapping, a property schema that is no dict,
\* an unknown type, an array without items, and whatever else of a property is
\* merely unusable): every description that is given is a string, and every
\* member of "required" can be put in a set.
WithinTotalityClause(schema) ==
    /\ \A i \in 1..Len(schema.properties.props) :
           schema.properties.props[i].description.k # "other"
    /\ \A j \in 1..Len(schema.required.v) : schema.required.v[j].k # "list"

NoParameters(schema) ==
    ~schema.dict \/ schema.properties.k # "dict" \/ schema.properties.names = <<>>

\* C17: translator totality.  _schema_parameters applied to a schema whose
\* faults are among the listed ones returns; it gives "()" and no doc entry
\* when the schema is no dict or its properties are absent, empty or no
\* mapping; otherwise it gives one doc entry per property, each showing a
\* non-empty annotation: Any for a property schema that is no dict or has an
\* unknown type name, list[Any] for an array without items.
C17_TranslatorTotal ==
    (out.fn = "_schema_parameters" /\ WithinTotalityClause(out.arg)) =>
        /\ out.r.raised = "none"
        /\ NoParameters(out.arg) => out.r.signature = <<"(", ")">> /\ out.r.doc_entries = <<>>
        /\ ~NoParameters(out.arg) =>
             /\ Len(out.r.doc_entries) = Len(PropNames)
             /\ \A i \in 1..Len(PropNames) :
                  LET shown == AnnotationShown(out.r.doc_entries[i], PropNames[i])
                  IN  /\ shown # <<>>
                      /\ ~PropAt(i).dict => StartsWith(shown, <<"A", "n", "y">>)
                      /\ (PropAt(i).dict /\ PropAt(i).type = TypeStr("uuid"))
                           => StartsWith(shown, <<"A", "n", "y">>)
                      /\ (PropAt(i).dict /\ PropAt(i).type = TypeStr("array")
                            /\ PropAt(i).items.k # "dict")
                           => StartsWith(shown, <<"l", "i", "s", "t", "[", "A", "n", "y", "]">>)

\* A schema whose one property, required, is no dict was translated to a
\* parameter annotated Any.
C17_Witness ==
    /\ out.fn = "_schema_parameters"
    /\ ~NoParameters(out.arg)
    /\ PropNames = <<pQuery>> /\ PropAt(1) = PropOther
    /\ DeclaredRequired(out.arg, pQuery)
    /\ out.r.raised = "none"
    /\ out.r.signature = <<"(", "*", ",", " ", "q", "u", "e", "r", "y", ":", " ", "A", "n", "y", ")">>
    /\ out.r.doc_entries = <<<<"q", "u", "e", "r", "y", " ", "(", "A", "n", "y", ")", ":", " ", "N", "o", " ", "d", "e", "s", "c", "r", "i", "p", "t", "i", "o", "n", " ", "p", "r", "o", "v", "i", "d", "e", "d", ".", " ", "[", "r", "e", "q", "u", "i", "r", "e", "d", "]">>>>

\* C18: render_tool_index never raises on account of a malformed tool: for a
\* catalog of the tool under translation and a well-formed one, in either
\* order, it returns an index with a definition for each of the two.
C18_RenderNeverRaises ==
    out.fn = "render_tool_index" =>
        /\ out.r.raised = "none"
        /\ Len(out.r.definitions) = Len(out.arg)

\* s.split(sep)
RECURSIVE Split(_, _)
Split(s, sep) ==
    LET i == FirstAt(s, sep, 1)
    IN  IF i = 0 THEN <<s>>
        ELSE <<SubSeq(s, 1, i - 1)>> \o Split(SubSeq(s, i + Len(sep), Len(s)), sep)

\* The parameters between "(*, " and ")" of a signature.
SignatureParams(signature) ==
    Split(SubSeq(signature, Len(<<"(", "*", ",", " ">>) + 1, Len(signature) - 1), <<",", " ">>)

\* The lines of a definition between "Args:" and the closing quotes.
ArgsSection(text) ==
    LET lines == Split(text, <<"\n">>)
        args == CHOOSE i \in 1..Len(lines) : lines[i] = <<" ", " ", " ", " ", "A", "r", "g", "s", ":">>
    IN  SubSeq(lines, args + 1, Len(lines) - 2)

\* _tool_definition was applied to a tool whose schema has properties and
\* returned.
Defined ==
    /\ out.fn = "_tool_definition"
    /\ ~NoParameters(out.arg.inputSchema)
    /\ out.r.raised = "none"

\* C19: for a schema with a non-empty properties mapping that is translated,
\* the signature starts with "(*, " and holds exactly one parameter per
\* property, the i-th beginning with the i-th declared name, and the doc
\* entries are exactly one per property in the same order; in the rendered
\* definition the declaration line carries that signature and the Args section
\* has exactly one line per property, in the declared order.
C19_OrderPreserved ==
    /\ Translated =>
         /\ Len(out.r.doc_entries) = Len(PropNames)
         /\ StartsWith(out.r.signature, <<"(", "*", ",", " ">>)
         /\ EndsWith(out.r.signature, <<")">>)
         /\ Len(SignatureParams(out.r.signature)) = Len(PropNames)
         /\ \A i \in 1..Len(PropNames) :
              /\ StartsWith(SignatureParams(out.r.signature)[i], PropNames[i] \o <<":", " ">>)
              /\ StartsWith(out.r.doc_entries[i], PropNames[i] \o <<" ", "(">>)
    /\ Defined =>
         LET names == out.arg.inputSchema.properties.names
             lines == Split(out.r.text, <<"\n">>)
             section == ArgsSection(out.r.text)
         IN  /\ StartsWith(lines[1], <<"d", "e", "f", " ", "s", "e", "a", "r", "c", "h", "(", "*", ",", " ">>)
             /\ Len(SignatureParams(SubSeq(lines[1], Len(<<"d", "e", "f", " ", "s", "e", "a", "r", "c", "h">>) + 1,
                                           Len(lines[1]) - 1))) = Len(names)
             /\ Len(section) = Len(names)
             /\ \A i \in 1..Len(names) :
                  StartsWith(section[i], <<" ", " ", " ", " ", " ", " ", " ", " ">> \o names[i] \o <<" ", "(">>)

\* The schema with query (a required string) declared before limit (an
\* integer with default 5) was rendered with query before limit.
C19_Witness ==
    /\ Defined
    /\ out.arg.inputSchema.properties.names = <<pQuery, pLimit>>
    /\ out.r.text =
         Join(<<<<"d", "e", "f", " ", "s", "e", "a", "r", "c", "h", "(", "*", ",", " ", "q", "u", "e", "r", "y", ":", " ", "s", "t", "r", ",", " ", "l", "i", "m", "i", "t", ":", " ", "i", "n", "t", " ", "|", " ", "N", "o", "n", "e", " ", "=", " ", "5", ")", ":">>,
                <<" ", " ", " ", " ", "\"", "\"", "\"">>,
                <<" ", " ", " ", " ", "S", "e", "a", "r", "c", "h", ".">>,
                <<" ", " ", " ", " ">>,
                <<" ", " ", " ", " ", "A", "r", "g", "s", ":">>,
                <<" ", " ", " ", " ", " ", " ", " ", " ", "q", "u", "e", "r", "y", " ", "(", "s", "t", "r", ")", ":", " ", "s", "e", "a", "r", "c", "h", " ", "t", "e", "x", "t", " ", "[", "r", "e", "q", "u", "i", "r", "e", "d", "]">>,
                <<" ", " ", " ", " ", " ", " ", " ", " ", "l", "i", "m", "i", "t", " ", "(", "i", "n", "t", " ", "|", " ", "N", "o", "n", "e", ")", ":", " ", "N", "o", " ", "d", "e", "s", "c", "r", "i", "p", "t", "i", "o", "n", " ", "p", "r", "o", "v", "i", "d", "e", "d", ".", " ", "[", "d", "e", "f", "a", "u", "l", "t", "=", "5", ",", " ", "o", "p", "t", "i", "o", "n", "a", "l", "]">>,
                <<" ", " ", " ", " ", "\"", "\"", "\"">>,
                <<" ", " ", " ", " ", "p", "a", "s", "s">>>>, <<"\n">>)

\* The type a property schema resolves to in the reference: its "type", or
\* the first entry of a list type that is not "null"; "" when there is none
\* or when it is no string.
ResolvedType(p) ==
    CASE p.type.k = "str" -> p.type.v[1]
      [] p.type.k = "list" /\ \E j \in 1..Len(p.type.v) : p.type.v[j] # "null" ->
            p.type.v[CHOOSE j \in 1..Len(p.type.v) :
                        /\ p.type.v[j] # "null"
                        /\ \A h \in 1..(j - 1) : p.type.v[h] = "null"]
      [] OTHER -> ""

\* No type is given: "type" is absent, or a list without an entry other than
\* "null".
TypeMissing(p) ==
    \/ p.type.k = "absent"
    \/ p.type.k = "list" /\ \A j \in 1..Len(p.type.v) : p.type.v[j] = "null"

\* The reference annotation.  enums is the set of "enum" values that turn a
\* missing type into str.
RECURSIVE ReferenceAnnotation(_, _)
ReferenceAnnotation(p, enums) ==
    LET t == ResolvedType(p)
    IN  CASE t = "string" -> <<"s", "t", "r">>
          [] t = "integer" -> <<"i", "n", "t">>
          [] t = "number" -> <<"f", "l", "o", "a", "t">>
          [] t = "boolean" -> <<"b", "o", "o", "l">>
          [] t = "object" -> <<"d", "i", "c", "t">>
          [] t = "array" ->
                <<"l", "i", "s", "t", "[">>
                  \o (IF p.items.k = "dict"
                      THEN ReferenceAnnotation(p.items.v[1], enums)
                      ELSE <<"A", "n", "y">>)
                  \o <<"]">>
          [] OTHER -> IF TypeMissing(p) /\ p.enum \in enums THEN <<"s", "t", "r">> ELSE <<"A", "n", "y">>

ReferenceNullable(p) == p.type.k = "list" /\ \E j \in 1..Len(p.type.v) : p.type.v[j] = "null"

\* C20 as stated: _annotation_from_schema equals the reference in which a
\* missing type together with an enum list, empty or not, gives str.
C20_InferTypeEnumList ==
    out.fn = "_annotation_from_schema" =>
        /\ out.r.nullable = ReferenceNullable(out.arg)
        /\ out.r.annotation = ReferenceAnnotation(out.arg, {"empty", "list"})

\* C20: _annotation_from_schema equals the reference: nullable is whether a
\* list type holds "null"; the type is the first entry of a list type that is
\* not "null"; string, integer, number, boolean and object give str, int,
\* float, bool and dict; array gives list[<element>], the element inferred in
\* the same way from "items" when that is a dict and Any otherwise; every
\* other type gives Any, except that a missing type together with an "enum"
\* that is true (a non-empty list, or any other true value) gives str.
C20_InferTypeEnumTruthy ==
    out.fn = "_annotation_from_schema" =>
        /\ out.r.nullable = ReferenceNullable(out.arg)
        /\ out.r.annotation = ReferenceAnnotation(out.arg, {"list", "other"})

\* A property schema without type and with an empty enum list was annotated
\* Any.
C20_Witness ==
    /\ out.fn = "_annotation_from_schema"
    /\ out.arg.type = TypeAbsent
    /\ out.arg.enum = "empty"
    /\ out.r = [annotation |-> <<"A", "n", "y">>, nullable |-> FALSE]

\* A registration was just made: the log grew by one entry.
Registered == Len(epoch_log') = Len(epoch_log) + 1

\* Identifier x is free for raw name raw in table t: unbound, or bound to raw.
FreeFor(t, x, raw) == x \notin DOMAIN t \/ t[x] = raw

\* C21: a registration of raw name raw with candidate c returns c when c is
\* unbound or bound to raw; otherwise it returns c_k for the smallest k >= 2
\* such that c_k is unbound or bound to raw.  The identifier returned is bound
\* to raw afterwards and no other entry of the table is added, removed or
\* changed.
C21_RegisterAlias ==
    [][Registered =>
         LET e == epoch_log'[Len(epoch_log')]
             c == CandidateOf(e.raw)
             probe(k) == c \o <<"_">> \o Decimal(k)
         IN  /\ IF FreeFor(tool_aliases, c, e.raw)
                THEN e.id = c
                ELSE \E k \in 2..(Len(epoch_log) + 2) :
                        /\ e.id = probe(k)
                        /\ FreeFor(tool_aliases, probe(k), e.raw)
                        /\ \A j \in 2..(k - 1) : ~FreeFor(tool_aliases, probe(j), e.raw)
             /\ DOMAIN tool_aliases' = DOMAIN tool_aliases \cup {e.id}
             /\ tool_aliases'[e.id] = e.raw
             /\ \A x \in DOMAIN tool_aliases \ {e.id} : tool_aliases'[x] = tool_aliases[x]]_vars

\* With search_2 and search taken by the tools of those names, search! was
\* registered and got search_3, the probe having passed over search_2.
C21_Witness ==
    epoch_log = <<[raw |-> nSearch2, id |-> nSearch2],
                  [raw |-> nSearch, id |-> nSearch],
                  [raw |-> nSearchBang, id |-> nSearch \o <<"_", "3">>]>>

\* The alias table a pass builds from a tool list.
TableOf(tools) == TableAfter(ToolNames(tools), Len(tools))

\* C22: a call_tool made, with no other call under way, when the cache holds
\* a fetched catalog resolves its name against the aliases of that catalog,
\* whichever operation fetched it.
C22_ResolveAgainstRefreshed ==
    \A c \in Callers :
        (/\ calls[c].op = "call_tool"
         /\ calls[c].pc \in {"invoke", "done"}
         /\ calls[c].entrySt = "ok")
          => calls[c].resolved = Resolve(TableOf(tasks[calls[c].entry].tools), calls[c].name)

\* C23: no resolve observes a table that is cleared but only partly
\* repopulated: a call_tool made after render_tool_index was applied to a
\* catalog resolves its name against the complete alias table of that catalog.
C23_NoPartialTable ==
    \A c \in Callers :
        (/\ out.fn = "render_tool_index"
         /\ calls[c].op = "call_tool"
         /\ calls[c].pc \in {"invoke", "done"})
          => calls[c].resolved = Resolve(TableOf(out.arg), calls[c].name)

\* The calls that have run an alias-building pass, each of which resets the
\* table once, and the fetches that have succeeded.
Passes ==
    {c \in Callers : /\ calls[c].op \in {"render_tool_index", "call_tool"}
                     /\ calls[c].from # 0
                     /\ calls[c].result # "fetch_error"}

SuccessfulFetches == {f \in TaskIds : tasks[f].st = "ok"}

\* C24 as stated: once every call has returned and every fetch has ended,
\* there were as many resets of the alias table as successful fetches.
C24_ResetPerFetch ==
    (Started = Callers /\ Quiescent /\ Running = {})
        => Cardinality(Passes) = Cardinality(SuccessfulFetches)

\* C24: the alias table is reset exactly once per alias-building pass, before
\* the identifiers of the pass are registered, and at no other time: a step in
\* which a call completes its pass leaves the table of that call's tool list
\* and nothing of the table before (an empty list over an empty table leaves
\* it empty); at most one call completes a pass in a step; every other step,
\* the success of a fetch included, leaves the table as it was.
C24_ResetPerPass ==
    [][/\ \A c \in Callers :
            PassCompletes(c) => /\ tool_aliases' = TableOf(calls'[c].tools)
                                /\ alias_src' = calls'[c].from
                                /\ \A d \in Callers \ {c} : ~PassCompletes(d)
       /\ (\A c \in Callers : ~PassCompletes(c))
            => tool_aliases' = tool_aliases /\ alias_src' = alias_src]_vars

\* Two render_tool_index calls shared one successful fetch: two resets, one
\* fetch.
C24_Witness ==
    /\ Cardinality(Callers) >= 2
    /\ calls[1].op = "render_tool_index" /\ calls[1].pc = "done" /\ calls[1].from = 1
    /\ calls[2].op = "render_tool_index" /\ calls[2].pc = "done" /\ calls[2].from = 1
    /\ SuccessfulFetches = {1}
    /\ Passes = {1, 2}

\* C25 as stated: a property whose schema is no dict is shown with the
\* annotation Any, not nullable, and the default description, whether it is
\* required or not.
C25_MalformedNeverNullable ==
    Translated =>
        \A i \in 1..Len(PropNames) :
            ~PropAt(i).dict =>
                /\ AnnotationShown(out.r.doc_entries[i], PropNames[i]) = <<"A", "n", "y">>
                /\ FirstAt(out.r.doc_entries[i], <<")", ":", " ", "N", "o", " ", "d", "e", "s", "c", "r", "i", "p", "t", "i", "o", "n", " ", "p", "r", "o", "v", "i", "d", "e", "d", ".", " ", "[">>, 1) # 0

\* C25: a property whose schema is no dict is inferred as Any with no
\* nullable union and gets the description "No description provided."; the
\* optional rule then applies to it as to any property: it is shown as Any
\* when it is required and as Any | None, with the default None, when it is
\* not.
C25_MalformedProperty ==
    Translated =>
        \A i \in 1..Len(PropNames) :
            ~PropAt(i).dict =>
                LET required == DeclaredRequired(out.arg, PropNames[i])
                    shown == IF required THEN <<"A", "n", "y">> ELSE <<"A", "n", "y", " ", "|", " ", "N", "o", "n", "e">>
                IN  /\ out.r.doc_entries[i]
                         = PropNames[i] \o <<" ", "(">> \o shown
                             \o <<")", ":", " ", "N", "o", " ", "d", "e", "s", "c", "r", "i", "p", "t", "i", "o", "n", " ", "p", "r", "o", "v", "i", "d", "e", "d", ".", " ", "[">>
                             \o (IF required THEN <<"r", "e", "q", "u", "i", "r", "e", "d">> ELSE <<"o", "p", "t", "i", "o", "n", "a", "l">>) \o <<"]">>
                    /\ SignatureParams(out.r.signature)[i]
                         = PropNames[i] \o <<":", " ">> \o shown
                             \o (IF required THEN <<>> ELSE <<" ", "=", " ", "N", "o", "n", "e">>)

\* A schema whose one property is no dict and is not required was translated
\* to a parameter annotated Any | None.
C25_Witness ==
    /\ Translated
    /\ PropNames = <<pQuery>> /\ PropAt(1) = PropOther
    /\ out.arg.required = ReqAbsent
    /\ out.r.signature = <<"(", "*", ",", " ", "q", "u", "e", "r", "y", ":", " ", "A", "n", "y", " ", "|", " ", "N", "o", "n", "e", " ", "=", " ", "N", "o", "n", "e", ")">>
    /\ out.r.doc_entries = <<<<"q", "u", "e", "r", "y", " ", "(", "A", "n", "y", " ", "|", " ", "N", "o", "n", "e", ")", ":", " ", "N", "o", " ", "d", "e", "s", "c", "r", "i", "p", "t", "i", "o", "n", " ", "p", "r", "o", "v", "i", "d", "e", "d", ".", " ", "[", "o", "p", "t", "i", "o", "n", "a", "l", "]">>>>

\* C26: translation and rendering leave the alias table unchanged: a step
\* that applies _schema_parameters, _annotation_from_schema or
\* _tool_definition does not change the table.
C26_TranslationLeavesAliases ==
    [][(out.fn = "none"
          /\ out'.fn \in {"_schema_parameters", "_annotation_from_schema", "_tool_definition"})
         => tool_aliases' = tool_aliases]_vars

\* C27: a catalog fetch that fails during render_tool_index.  (a) The render
\* whose awaited task failed raised that failure and returned no index.
\* (b) Every call made after it that goes to the catalog awaits a task created
\* after the failed one, and a getCatalog(refresh=false) among them that
\* returned tools was handed the list of such a task, fetched successfully.
\* (c) No step of the failing render, from its start to the raise, changes the
\* alias table.
C27_FailedRenderState ==
    \A c \in Started :
        (calls[c].op = "render_tool_index" /\ calls[c].pc = "done"
           /\ tasks[calls[c].awaited].st = "failed")
        => /\ calls[c].result = "fetch_error" /\ calls[c].tools = <<>>
           /\ \A d \in Started :
                (d > c /\ calls[d].awaited # 0)
                => /\ calls[d].awaited > calls[c].awaited
                   /\ (calls[d].op = "list_tools" /\ ~calls[d].refresh
                         /\ calls[d].result = "tools")
                      => /\ calls[d].from > calls[c].awaited
                         /\ tasks[calls[d].from].st = "ok"
                         /\ calls[d].tools = tasks[calls[d].from].tools

C27_FailedRenderStep ==
    \A c \in Callers :
        (calls[c].pc # "done" /\ calls'[c].op = "render_tool_index"
           /\ (calls'[c].pc = "await" \/ calls'[c].result = "fetch_error"))
        => tool_aliases' = tool_aliases

C27_RenderFetchFailure == []C27_FailedRenderState /\ [][C27_FailedRenderStep]_vars

\* A render started on a built table (refresh=true after a first render, or
\* refresh=false after a list_tools failure emptied the cache) raised the fetch
\* failure with the table still built, and a later getCatalog(refresh=false)
\* returned the tools of a new fetch.
C27_Witness ==
    \E c, d \in Callers :
        /\ c < d
        /\ calls[c].op = "render_tool_index" /\ calls[c].result = "fetch_error"
        /\ calls[c].refresh
        /\ tool_aliases # EmptyAliases
        /\ calls[d].op = "list_tools" /\ ~calls[d].refresh
        /\ calls[d].result = "tools" /\ calls[d].tools # <<>>

\* C28: the failure of a fetch empties the cache only if that fetch is still
\* the cache's current one: the step in which an awaiter is handed the failure
\* of a task that is no longer current leaves the cache holding the newer task.
C28_FailureKeepsNewerFetch ==
    [][\A c \in Callers :
          (calls[c].result = "none" /\ calls'[c].result = "fetch_error"
             /\ list_task # calls[c].awaited)
          => list_task' = list_task]_vars

\* C29: the alias table never regresses to a superseded catalog.  Tasks are
\* numbered in the order they are created: a pass that completes on the list of
\* a task older than the task the table was built from leaves the table as the
\* newer task's pass made it.
C29_NoAliasRegression ==
    [][\A c \in Callers :
         (PassCompletes(c) /\ alias_src # 0 /\ calls'[c].from < alias_src)
         => tool_aliases' = tool_aliases]_vars

\* C30: progress.  Every call that is suspended in "await self._list_task"
\* eventually leaves it: a getCatalog or a render returns or raises, a call_tool
\* has its identifier resolved (and goes on to the provider) or raises.  And
\* every registration ends within its bound: the i-th registration of a pass
\* returns the sanitized name or that name with a suffix between 2 and i.
C30_ProbeBounded ==
    \A i \in LogIndex :
        \/ epoch_log[i].id = Sanitize(epoch_log[i].raw)
        \/ \E k \in 2..i : epoch_log[i].id = Suffixed(Sanitize(epoch_log[i].raw), k)

C30_Progress ==
    /\ \A c \in 1..NCallers :
         (calls[c].pc = "await") ~> (calls[c].pc \in {"invoke", "done"})
    /\ []C30_ProbeBounded

\* A list_tools, superseded by a refreshing render, and that render have both
\* returned, and the render's pass probed a suffix for the second name.
C30_Witness ==
    \E c, d \in Callers :
        /\ c < d
        /\ calls[c].op = "list_tools" /\ calls[c].pc = "done"
        /\ calls[d].op = "render_tool_index" /\ calls[d].pc = "done"
        /\ calls[d].awaited # calls[c].awaited
        /\ calls[d].entrySt = "running"
        /\ Len(epoch_log) = 2
        /\ epoch_log[2].id = nSearch2

====
